---- MODULE Spec2Model ----
(***************************************************************************)
(* Model of nemo/deploy/nlp/megatrongpt_deployable.py: the adapter that    *)
(* loads a Megatron GPT checkpoint and serves it through a tensor-based    *)
(* inference entry point (MegatronGPTDeployable).                          *)
(*                                                                         *)
(* Python values are tagged records: a scalar is [type, val] with val a    *)
(* string spelling the value, a list is [type |-> "list", items].  An      *)
(* ordered dict is a sequence of [name, value] entries in insertion order. *)
(* A numpy array is [dtype, shape, fill]: its element type, its shape and, *)
(* for an array made by np.full, the value every element holds ("data"     *)
(* for an array converted from model data).  A call either returns a value *)
(* (Ok) or raises (Raised).  The module binds batch and Tensor to          *)
(* pytriton's when pytriton can be imported (use_pytriton) and falls back  *)
(* to noop_decorator, leaving Tensor undefined, when it cannot.            *)
(***************************************************************************)
EXTENDS Integers, Sequences, FiniteSets, TLC

VARIABLES
    use_pytriton,       \* module state: the pytriton imports succeeded
    pc,                 \* position of __init__/_load, then "constructed" or "raised"
    path_exists,        \* Path(nemo_checkpoint_filepath).exists()
    num_devices,        \* constructor argument
    num_nodes,          \* constructor argument
    checkpoint_config,  \* the configuration stored in the checkpoint file
    trainer,            \* the Trainer built by _load, or NoObject
    custom_config,      \* the configuration read and overridden by _load, or NoObject
    model,              \* self.model, or NoObject while the attribute is unset
    calls,              \* the external calls made so far, in order
    sampling_defaults,  \* what get_default_sampling_params() returns
    length_defaults,    \* what get_default_length_params() returns
    inputs,             \* the request batch of the latest triton_infer_fn call
    model_output,       \* what model.generate returns for that call
    generate_args,      \* the arguments generate received in that call, or NoObject
    infer_result,       \* the outcome of that call: NotCalled, Ok(mapping) or Raised(error)
    overrides_served,   \* history: a finished call supplied an optional parameter
    triton_input        \* the outcome of reading get_triton_input: NotCalled, Ok or Raised

vars == <<use_pytriton, pc, path_exists, num_devices, num_nodes, checkpoint_config, trainer,
          custom_config, model, calls, sampling_defaults, length_defaults,
          inputs, model_output, generate_args, infer_result, overrides_served,
          triton_input>>

----------------------------------------------------------------------------
(* Bounds of the model. *)

\* Largest number of rows (prompts) of a request batch, and of entries of a
\* list in the generate result.
MaxBatch == 2

\* Largest number of elements of one row (tokens of one generation).
MaxTokens == 2

\* Largest device count given to the constructor.
MaxDevices == 2

\* Largest node count given to the constructor.
MaxNodes == 1

----------------------------------------------------------------------------
(* Python values and call outcomes. *)

NoObject == [type |-> "unset"]
NotCalled == [status |-> "not called"]
Ok(v) == [value |-> v, status |-> "returned"]
Raised(e) == [status |-> "raised", error |-> e]
IsOk(r) == r.status = "returned"
IsRaised(r) == r.status = "raised"

PyStr(s) == [type |-> "str", val |-> s]
PyBool(s) == [type |-> "bool", val |-> s]
PyFloat(s) == [type |-> "float", val |-> s]
PyInt(s) == [type |-> "int", val |-> s]
PyList(xs) == [type |-> "list", items |-> xs]
PyNone == [type |-> "NoneType"]

Entry(n, v) == [value |-> v, name |-> n]
Keys(d) == {d[i].name : i \in DOMAIN d}
Lookup(d, k) == d[CHOOSE i \in DOMAIN d : d[i].name = k].value

----------------------------------------------------------------------------
(* Module-level helpers. *)

\* Variant of GetTensorShape that treats every value as a scalar.
GetTensorShapeAlwaysScalar(pyvalue) == <<1>>

\* GetTensorShape: lists are shape (-1,), everything else shape (1,).
GetTensorShape(pyvalue) == IF pyvalue.type = "list" THEN <<-1>> ELSE <<1>>

\* py_to_numpy_mapping of GetNumpyDtype.
py_to_numpy_mapping ==
    [str |-> "bytes", bool |-> "bool_", float |-> "single", int |-> "int_"]

\* GetNumpyDtype: the numpy type of a python value; for a list, of its first
\* element.  pyvalue[0] of an empty list raises IndexError, a type outside the
\* mapping raises KeyError.
GetNumpyDtype(pyvalue) ==
    IF pyvalue.type = "list" /\ pyvalue.items = <<>>
    THEN Raised("IndexError")
    ELSE LET python_type == IF pyvalue.type = "list"
                            THEN pyvalue.items[1].type
                            ELSE pyvalue.type
         IN  IF python_type \in DOMAIN py_to_numpy_mapping
             THEN Ok(py_to_numpy_mapping[python_type])
             ELSE Raised("KeyError")

\* pytriton's Tensor descriptor.
Tensor(name, shape, dtype, optional) ==
    [name |-> name, shape |-> shape, dtype |-> dtype, optional |-> optional]

----------------------------------------------------------------------------
(* Class attributes. *)

\* _INPUT_PARAMETER_FIELDS: name -> (shape, dtype, optional).
_INPUT_PARAMETER_FIELDS ==
    << Entry("prompts", [shape |-> -1, dtype |-> "bytes", optional |-> FALSE]) >>

\* _BLANK_OUTPUTTYPE: the output record with its placeholder values.
_BLANK_OUTPUTTYPE ==
    << Entry("sentences", PyList(<<PyStr("")>>)),
       Entry("tokens", PyList(<<PyList(<<PyStr("")>>)>>)),
       Entry("logprob", PyList(<<PyList(<<PyFloat("0.0")>>)>>)),
       Entry("full_logprob", PyList(<<PyList(<<PyFloat("0.0")>>)>>)),
       Entry("token_ids", PyList(<<PyList(<<PyInt("0")>>)>>)),
       Entry("offsets", PyList(<<PyList(<<PyInt("0")>>)>>)) >>

----------------------------------------------------------------------------
(* Schema derivation. *)

\* The descriptors of one parameter dictionary: one optional Tensor per entry.
ParameterTensors(params) ==
    [i \in DOMAIN params |->
        Tensor(params[i].name, GetTensorShape(params[i].value),
               GetNumpyDtype(params[i].value), TRUE)]

\* get_triton_input: prompts, then the sampling parameters, then the length
\* parameters; a dtype lookup that raises makes the property raise.  The name
\* Tensor is bound only when the pytriton imports succeeded; without it the
\* first descriptor raises NameError.
get_triton_input(pytriton_imported, default_sampling_params, default_length_params) ==
    IF ~pytriton_imported THEN Raised("NameError") ELSE
    LET input_parameters ==
            [i \in DOMAIN _INPUT_PARAMETER_FIELDS |->
                Tensor(_INPUT_PARAMETER_FIELDS[i].name,
                       <<_INPUT_PARAMETER_FIELDS[i].value.shape>>,
                       Ok(_INPUT_PARAMETER_FIELDS[i].value.dtype),
                       _INPUT_PARAMETER_FIELDS[i].value.optional)]
        sampling_parameters == ParameterTensors(default_sampling_params)
        length_parameters == ParameterTensors(default_length_params)
        all == input_parameters \o sampling_parameters \o length_parameters
        bad == {i \in DOMAIN all : IsRaised(all[i].dtype)}
    IN  IF bad # {}
        THEN Raised(all[CHOOSE i \in bad : \A j \in bad : i <= j].dtype.error)
        ELSE Ok([i \in DOMAIN all |->
                    Tensor(all[i].name, all[i].shape, all[i].dtype.value,
                           all[i].optional)])

\* get_triton_output: one Tensor per field of _BLANK_OUTPUTTYPE, typed from
\* the placeholder's first element; NameError when Tensor is not bound.
get_triton_output(pytriton_imported) ==
    IF ~pytriton_imported THEN Raised("NameError")
    ELSE Ok([i \in DOMAIN _BLANK_OUTPUTTYPE |->
                [name |-> _BLANK_OUTPUTTYPE[i].name,
                 shape |-> GetTensorShape(_BLANK_OUTPUTTYPE[i].value),
                 dtype |-> GetNumpyDtype(_BLANK_OUTPUTTYPE[i].value.items[1]).value]])

----------------------------------------------------------------------------
(* The parameter-default providers (text_generation_utils) and the request *)
(* batch.                                                                  *)

\* An element of a request tensor: a numpy scalar of the tensor's dtype.
NpScalar(dtype, s) == [type |-> dtype, val |-> s]

\* get_default_sampling_params(): a new dictionary on every call.
get_default_sampling_params ==
    << Entry("use_greedy", PyBool("True")),
       Entry("temperature", PyFloat("1.0")),
       Entry("top_k", PyInt("0")),
       Entry("compute_logprob", PyBool("False")),
       Entry("end_strings", PyList(<<PyStr("<|endoftext|>")>>)) >>

\* get_default_length_params(): a new dictionary on every call.
get_default_length_params ==
    << Entry("max_length", PyInt("30")),
       Entry("min_length", PyInt("0")) >>

\* str_ndarray2list (nemo.deploy.utils): decode the (N, 1) byte-string array,
\* squeeze the last axis, and return the N strings as a list.
str_ndarray2list(str_ndarray) ==
    [i \in DOMAIN str_ndarray |-> PyStr(str_ndarray[i][1].val)]

\* dict.pop of a key that is present, as done on the handler's own kwargs.
Pop(d, k) == [x \in DOMAIN d \ {k} |-> d[x]]

----------------------------------------------------------------------------
(* Parameter extraction. *)

\* Variant of the extraction loop that copies every key of the batch into the
\* dictionary, as dict.update(inputs) would.
ParamsUpdatedFromBatch(params, batch) ==
    LET extra == SelectSeq(<<"random_seed", "use_greedy", "temperature", "top_k",
                             "compute_logprob", "end_strings", "max_length",
                             "min_length">>,
                           LAMBDA k : k \in DOMAIN batch /\ k \notin Keys(params))
    IN  [i \in DOMAIN params |->
            IF params[i].name \in DOMAIN batch
            THEN Entry(params[i].name, batch[params[i].name][1][1])
            ELSE params[i]]
        \o [i \in DOMAIN extra |-> Entry(extra[i], batch[extra[i]][1][1])]

\* Variant of the extraction loop that reads the last row of the tensor.
ParamsFromLastRow(params, batch) ==
    [i \in DOMAIN params |->
        IF params[i].name \in DOMAIN batch
        THEN Entry(params[i].name,
                   batch[params[i].name][Len(batch[params[i].name])][1])
        ELSE params[i]]

\* The loop shared by both extractors: every key of the defaults that the
\* batch supplies takes the batch tensor's element [0][0].
ParamsFromTritonInputs(params, batch) ==
    [i \in DOMAIN params |->
        IF params[i].name \in DOMAIN batch
        THEN Entry(params[i].name, batch[params[i].name][1][1])
        ELSE params[i]]

\* _sampling_params_from_triton_inputs, given what the provider returned.
_sampling_params_from_triton_inputs(sampling_params, batch) ==
    ParamsFromTritonInputs(sampling_params, batch)

\* _length_params_from_triton_inputs, given what the provider returned.
_length_params_from_triton_inputs(length_params, batch) ==
    ParamsFromTritonInputs(length_params, batch)

\* Variant in which the extractor writes into a dictionary the provider keeps.
ProviderSharesDictionary(provided, overwritten) == overwritten

\* The dictionary a provider returns on its next call, after the dictionary
\* it returned on this call was overwritten by the extractor: the provider
\* builds a new dictionary per call, so the writes do not reach it.
ProviderAfterExtraction(provided, overwritten) == provided

----------------------------------------------------------------------------
(* numpy, torch and nemo.deploy.utils as the output marshalling uses them. *)

PyTensor(dtype, n) == [type |-> "Tensor", dtype |-> dtype, len |-> n]
NdArray(dtype, shape, fill) ==
    [type |-> "ndarray", shape |-> shape, dtype |-> dtype, fill |-> fill]

\* The element type np.array infers for python scalars.
np_inferred_dtype ==
    [str |-> "str_", bool |-> "bool_", float |-> "double", int |-> "int_"]

\* The numpy element type of torch.Tensor.numpy().
torch_to_numpy ==
    [float32 |-> "single", float16 |-> "half", int64 |-> "int_"]

\* The length of one entry of a list handed to np.array.
EntryShape(x) ==
    IF x.type = "list" THEN <<Len(x.items)>>
    ELSE IF x.type = "ndarray" THEN x.shape
    ELSE <<>>

\* The element type of one entry of a list handed to np.array.
EntryDtype(x) ==
    IF x.type = "list" THEN np_inferred_dtype[x.items[1].type]
    ELSE IF x.type = "ndarray" THEN x.dtype
    ELSE np_inferred_dtype[x.type]

\* np.array(value) of a non-empty python list.  Entries of one shape stack
\* into a rectangular array.  Entries of different lengths make an object
\* array of the entries on a numpy that still allows ragged input
\* (ragged_allowed) and raise ValueError on one that does not.
np_array(value, ragged_allowed) ==
    LET items == value.items
        rectangular == \A i \in DOMAIN items : EntryShape(items[i]) = EntryShape(items[1])
    IN  IF rectangular
        THEN Ok(NdArray(EntryDtype(items[1]),
                        <<Len(items)>> \o EntryShape(items[1]), "data"))
        ELSE IF ragged_allowed
             THEN Ok(NdArray("object_", <<Len(items)>>, "data"))
             ELSE Raised("ValueError")

\* np.shape(a): the shape of a as an array; None is a 0-d array.
np_shape(a, ragged_allowed) ==
    IF a.type = "NoneType" THEN Ok(<<>>)
    ELSE LET arr == np_array(a, ragged_allowed)
         IN  IF IsRaised(arr) THEN arr ELSE Ok(arr.value.shape)

RECURSIVE InnermostScalar(_)
\* The scalar a nested one-element placeholder list holds.
InnermostScalar(pyvalue) ==
    IF pyvalue.type = "list" THEN InnermostScalar(pyvalue.items[1]) ELSE pyvalue

\* np.full(shape, fill_value, dtype): fill_value (a scalar or a one-element
\* list) is broadcast to shape, so every element is that scalar.
np_full(shape, fill_value, dtype) ==
    NdArray(dtype, shape, InnermostScalar(fill_value))

\* tensor.cpu().numpy(); numpy has no bfloat16, so that conversion raises.
tensor_numpy(tensor) ==
    IF tensor.dtype \in DOMAIN torch_to_numpy
    THEN Ok(NdArray(torch_to_numpy[tensor.dtype], <<tensor.len>>, "data"))
    ELSE Raised("TypeError")

\* cast_output (nemo.deploy.utils): to a numpy array, utf-8 encoded when the
\* required type is a byte string (np.char.encode accepts string arrays only),
\* given a trailing axis when it has fewer than two, then astype(required).
cast_output(data, required_dtype, ragged_allowed) ==
    LET arr == IF data.type = "Tensor" THEN tensor_numpy(data)
               ELSE IF data.type = "ndarray" THEN Ok(data)
               ELSE np_array(data, ragged_allowed)
    IN  IF IsRaised(arr) THEN arr
        ELSE IF required_dtype = "bytes" /\ arr.value.dtype # "str_"
        THEN Raised("TypeError")
        ELSE LET shape == IF Len(arr.value.shape) < 2
                          THEN arr.value.shape \o <<1>>
                          ELSE arr.value.shape
             IN  Ok(NdArray(required_dtype, shape, "data"))

----------------------------------------------------------------------------
(* The inference adapter. *)

Fields == Keys(_BLANK_OUTPUTTYPE)

\* The first error among a sequence of outcomes, or the sequence of values.
Collect(outcomes) ==
    LET bad == {i \in DOMAIN outcomes : IsRaised(outcomes[i])}
    IN  IF bad # {}
        THEN outcomes[CHOOSE i \in bad : \A j \in bad : i <= j]
        ELSE Ok([i \in DOMAIN outcomes |-> outcomes[i].value])

\* Variant of the None branch that returns the placeholder as an array of
\* one element, without broadcasting it to the shape of sentences.
NoneFillUnbroadcast(blank, field_dtype, output, ragged_allowed) ==
    Ok(np_full(<<1>>, blank, field_dtype))

\* The None branch: an array of the field's placeholder value, shaped like
\* the result's sentences.  A one-element list placeholder does not broadcast
\* to the 0-d shape of a None sentences: ValueError.
NoneFill(blank, field_dtype, output, ragged_allowed) ==
    IF "sentences" \notin Keys(output) THEN Raised("KeyError")
    ELSE LET shape == np_shape(Lookup(output, "sentences"), ragged_allowed)
         IN  IF IsRaised(shape) THEN shape
             ELSE IF shape.value = <<>> /\ blank.type = "list"
             THEN Raised("ValueError")
             ELSE Ok(np_full(shape.value, blank, field_dtype))

\* The bfloat16 branch: every tensor is upcast with .float() and stacked.
Bfloat16Branch(value, field_dtype, ragged_allowed) ==
    np_array(PyList([i \in DOMAIN value.items |->
                        NdArray("single", <<value.items[i].len>>, "data")]),
             ragged_allowed)

\* The other-tensor branch: every tensor goes through cast_output and the
\* results are stacked.
TensorBranch(value, field_dtype, ragged_allowed) ==
    LET casts == Collect([i \in DOMAIN value.items |->
                     cast_output(value.items[i], field_dtype, ragged_allowed)])
    IN  IF IsRaised(casts) THEN casts
        ELSE np_array(PyList(casts.value), ragged_allowed)

\* The pass-through branch: non-strings are output as np.array(value).
PassThrough(value, field_dtype, ragged_allowed) ==
    np_array(value, ragged_allowed)

\* One iteration of the loop over model_output.items().
MarshalField(field, value, output, ragged_allowed) ==
    IF field \notin Fields THEN Raised("KeyError")
    ELSE LET blank == Lookup(_BLANK_OUTPUTTYPE, field).items[1]
             field_dtype == GetNumpyDtype(blank).value
         IN  IF value.type = "NoneType"
             THEN NoneFill(blank, field_dtype, output, ragged_allowed)
             ELSE IF field_dtype = "bytes"
             THEN cast_output(value, field_dtype, ragged_allowed)
             ELSE IF value.items[1].type = "Tensor"
             THEN IF value.items[1].dtype = "bfloat16"
                  THEN Bfloat16Branch(value, field_dtype, ragged_allowed)
                  ELSE TensorBranch(value, field_dtype, ragged_allowed)
             ELSE PassThrough(value, field_dtype, ragged_allowed)

\* The loop: triton_output gets one array per entry of model_output, in its
\* order; an iteration that raises ends the call.
MarshalOutput(output, ragged_allowed) ==
    LET arrays == Collect([i \in DOMAIN output |->
                      MarshalField(output[i].name, output[i].value, output,
                                   ragged_allowed)])
    IN  IF IsRaised(arrays) THEN arrays
        ELSE Ok([i \in DOMAIN output |-> Entry(output[i].name, arrays.value[i])])

\* The body of triton_infer_fn: the arguments generate receives (NoObject
\* when generate is not reached) and the outcome of the body.
triton_infer_fn_body(self_model, batch, provided_sampling, provided_length, output, ragged_allowed) ==
    IF "prompts" \notin DOMAIN batch
    THEN [generate_args |-> NoObject, result |-> Raised("KeyError")]
    ELSE LET input_strings == str_ndarray2list(batch["prompts"])
             rest == Pop(batch, "prompts")
             sampling_params ==
                 _sampling_params_from_triton_inputs(provided_sampling, rest)
             length_params ==
                 _length_params_from_triton_inputs(provided_length, rest)
         IN  IF self_model = NoObject
             THEN [generate_args |-> NoObject, result |-> Raised("AttributeError")]
             ELSE [generate_args |->
                       [inputs |-> input_strings,
                        type |-> "generate",
                        sampling_params |-> sampling_params,
                        length_params |-> length_params],
                   result |-> MarshalOutput(output, ragged_allowed)]

\* noop_decorator, which batch is bound to when pytriton cannot be imported.
\* wrapt calls the function it decorates as (wrapped, instance, args, kwargs);
\* noop_decorator takes one argument, so every call of a method decorated
\* with it raises TypeError before the method's body runs.
noop_decorator == [generate_args |-> NoObject, result |-> Raised("TypeError")]

\* The number of rows of a request (pytriton's request batch size).
RequestBatchSize(request) == Len(request[CHOOSE k \in DOMAIN request : TRUE])

\* The batching decorator of the serving runtime (pytriton's batch) around a
\* call that carries one request: the body runs on the request's tensors and
\* an exception of the body propagates.  A pytriton release that validates
\* outputs (validates_outputs) raises ValueError when an output's leading
\* length is not the request's batch size (a 0-d output has no leading
\* length: IndexError); one that does not returns what the body returned.
\* For one request the split of valid outputs returns every output whole.
pytriton_batch(request, call, validates_outputs) ==
    IF IsRaised(call.result) \/ ~validates_outputs THEN call
    ELSE LET outputs == call.result.value
             n == RequestBatchSize(request)
         IN  IF \E i \in DOMAIN outputs : outputs[i].value.shape = <<>>
             THEN [generate_args |-> call.generate_args, result |-> Raised("IndexError")]
             ELSE IF \E i \in DOMAIN outputs : outputs[i].value.shape[1] # n
             THEN [generate_args |-> call.generate_args, result |-> Raised("ValueError")]
             ELSE call

\* triton_infer_fn as callers invoke it: the body under @batch, which is
\* pytriton's batch when pytriton was imported and noop_decorator otherwise.
triton_infer_fn(pytriton_imported, validates_outputs, self_model, batch, provided_sampling, provided_length, output, ragged_allowed) ==
    IF pytriton_imported
    THEN pytriton_batch(batch, triton_infer_fn_body(self_model, batch, provided_sampling, provided_length, output, ragged_allowed), validates_outputs)
    ELSE noop_decorator

----------------------------------------------------------------------------
(* Construction: __init__ and _load. *)

Call(op, config, failed) == [op |-> op, config |-> config, failed |-> failed]

\* Trainer(strategy=NLPDDPStrategy(), accelerator="gpu", precision="bf16", ...)
NewTrainer(devices, nodes) ==
    [num_nodes |-> nodes, type |-> "Trainer", devices |-> devices,
     strategy |-> "NLPDDPStrategy", accelerator |-> "gpu", precision |-> "bf16"]

\* Variant of the overrides that leaves the checkpoint's parallel size.
OverriddenConfigKeepsParallelSize(config, devices) ==
    [config EXCEPT !.transformer_engine = TRUE]

\* The two configuration overrides of _load.
OverriddenConfig(config, devices) ==
    [config EXCEPT !.transformer_engine = TRUE,
                   !.tensor_model_parallel_size = devices]

\* The model restore_from returns: built from the overriding configuration,
\* in training mode until eval() is called.
RestoredModel(config) ==
    [type |-> "MegatronGPTModel", config |-> config, training |-> TRUE]

\* model.eval()
EvalMode(m) == [m EXCEPT !.training = FALSE]

ServingVars ==
    <<inputs, model_output, generate_args, infer_result, overrides_served, triton_input>>
ProviderVars == <<sampling_defaults, length_defaults>>
EnvironmentVars == <<use_pytriton, path_exists, num_devices, num_nodes, checkpoint_config>>

\* __init__ stores the path and enters _load, which returns at once when the
\* checkpoint path does not exist.
Construct ==
    /\ pc = "init"
    /\ pc' = IF path_exists THEN "trainer" ELSE "constructed"
    /\ UNCHANGED <<trainer, custom_config, model, calls>>
    /\ UNCHANGED <<EnvironmentVars, ProviderVars, ServingVars>>

\* trainer = Trainer(...); a failure propagates out of the constructor.
MakeTrainer ==
    /\ pc = "trainer"
    /\ \E ok \in BOOLEAN :
          /\ calls' = Append(calls, Call("Trainer", NoObject, ~ok))
          /\ IF ok
             THEN /\ trainer' = NewTrainer(num_devices, num_nodes)
                  /\ pc' = "read_config"
             ELSE /\ pc' = "raised"
                  /\ UNCHANGED trainer
    /\ UNCHANGED <<custom_config, model>>
    /\ UNCHANGED <<EnvironmentVars, ProviderVars, ServingVars>>

\* custom_config = restore_from(path, trainer=trainer, return_config=True)
ReadConfig ==
    /\ pc = "read_config"
    /\ \E ok \in BOOLEAN :
          /\ calls' = Append(calls, Call("restore_from(return_config)", NoObject, ~ok))
          /\ IF ok
             THEN /\ custom_config' = checkpoint_config
                  /\ pc' = "override"
             ELSE /\ pc' = "raised"
                  /\ UNCHANGED custom_config
    /\ UNCHANGED <<trainer, model>>
    /\ UNCHANGED <<EnvironmentVars, ProviderVars, ServingVars>>

\* custom_config.transformer_engine = True
\* custom_config.tensor_model_parallel_size = num_devices
OverrideConfig ==
    /\ pc = "override"
    /\ custom_config' = OverriddenConfig(custom_config, num_devices)
    /\ pc' = "restore"
    /\ UNCHANGED <<trainer, model, calls>>
    /\ UNCHANGED <<EnvironmentVars, ProviderVars, ServingVars>>

\* self.model = restore_from(path, trainer=trainer, override_config_path=custom_config)
RestoreWeights ==
    /\ pc = "restore"
    /\ \E ok \in BOOLEAN :
          /\ calls' = Append(calls, Call("restore_from(override_config)", custom_config, ~ok))
          /\ IF ok
             THEN /\ model' = RestoredModel(custom_config)
                  /\ pc' = "eval"
             ELSE /\ pc' = "raised"
                  /\ UNCHANGED model
    /\ UNCHANGED <<trainer, custom_config>>
    /\ UNCHANGED <<EnvironmentVars, ProviderVars, ServingVars>>

\* self.model.eval(), after which _load and __init__ return.
Eval ==
    /\ pc = "eval"
    /\ \E ok \in BOOLEAN :
          /\ calls' = Append(calls, Call("eval", NoObject, ~ok))
          /\ IF ok
             THEN /\ model' = EvalMode(model)
                  /\ pc' = "constructed"
             ELSE /\ pc' = "raised"
                  /\ UNCHANGED model
    /\ UNCHANGED <<trainer, custom_config>>
    /\ UNCHANGED <<EnvironmentVars, ProviderVars, ServingVars>>

Load == Construct \/ MakeTrainer \/ ReadConfig \/ OverrideConfig \/ RestoreWeights \/ Eval

----------------------------------------------------------------------------
(* Serving: the runtime hands a batch to triton_infer_fn. *)

LifecycleVars == <<pc, trainer, custom_config, model, calls>>

\* The serving runtime delivers the next request batch; result is what
\* model.generate will return for it.
Deliver(batch, result) ==
    /\ pc = "constructed"
    /\ ~(inputs # NoObject /\ infer_result = NotCalled)
    /\ inputs' = batch
    /\ model_output' = result
    /\ generate_args' = NoObject
    /\ infer_result' = NotCalled
    /\ UNCHANGED <<overrides_served, triton_input>>
    /\ UNCHANGED <<LifecycleVars, EnvironmentVars, ProviderVars>>

\* triton_infer_fn runs on the delivered batch.
TritonInferFn ==
    /\ pc = "constructed"
    /\ inputs # NoObject
    /\ infer_result = NotCalled
    /\ \E ragged_allowed \in BOOLEAN, validates_outputs \in BOOLEAN :
          LET call == triton_infer_fn(use_pytriton, validates_outputs, model, inputs, sampling_defaults,
                                      length_defaults, model_output, ragged_allowed)
          IN  /\ generate_args' = call.generate_args
              /\ infer_result' = call.result
              /\ sampling_defaults' =
                    IF use_pytriton
                    THEN ProviderAfterExtraction(sampling_defaults,
                             _sampling_params_from_triton_inputs(sampling_defaults, inputs))
                    ELSE sampling_defaults
              /\ length_defaults' =
                    IF use_pytriton
                    THEN ProviderAfterExtraction(length_defaults,
                             _length_params_from_triton_inputs(length_defaults, inputs))
                    ELSE length_defaults
    /\ overrides_served' = (overrides_served \/ DOMAIN inputs # {"prompts"})
    /\ UNCHANGED <<inputs, model_output, triton_input>>
    /\ UNCHANGED <<LifecycleVars, EnvironmentVars>>

\* The serving runtime reads the get_triton_input property.
GetTritonInput ==
    /\ pc = "constructed"
    /\ triton_input = NotCalled
    /\ triton_input' = get_triton_input(use_pytriton, sampling_defaults, length_defaults)
    /\ UNCHANGED <<inputs, model_output, generate_args, infer_result, overrides_served>>
    /\ UNCHANGED <<LifecycleVars, EnvironmentVars, ProviderVars>>

----------------------------------------------------------------------------
(* The inputs the model is run on. *)

\* Configurations a checkpoint file may hold.
CheckpointConfigs ==
    [transformer_engine : BOOLEAN, tensor_model_parallel_size : 1..MaxDevices]

\* The prompts tensor of a batch of n requests: shape (n, 1), byte strings.
PromptsTensor(n) == [i \in 1..n |-> <<NpScalar("bytes", "Hello")>>]

\* The batch of n requests that supplies no optional parameter.
PlainBatch(n) == [k \in {"prompts"} |-> PromptsTensor(n)]

\* Values an element of the tensor of a parameter may take, by element type.
ElementValues ==
    [bool_ |-> {"True", "False"}, single |-> {"0.7", "1.0"},
     int_ |-> {"0", "5"}, bytes |-> {"<|endoftext|>", "END"}]

\* The (n, 1) tensors a request batch may carry for a parameter whose default
\* is pyvalue: any element of the declared type in every row.
ParameterTensors_n(pyvalue, n) ==
    LET dtype == GetNumpyDtype(pyvalue).value
    IN  [1..n -> {<<NpScalar(dtype, v)>> : v \in ElementValues[dtype]}]

AllDefaults == get_default_sampling_params \o get_default_length_params

\* A tensor under a name neither provider knows.
UnknownTensor(n) == [i \in 1..n |-> <<NpScalar("int_", "1")>>]

\* Batches of n requests supplying one known parameter.
OneParameterBatches(n) ==
    UNION {{[k \in {"prompts", AllDefaults[i].name} |->
                IF k = "prompts" THEN PromptsTensor(n) ELSE t]
            : t \in ParameterTensors_n(AllDefaults[i].value, n)}
           : i \in DOMAIN AllDefaults}

\* Batches of n requests supplying one known parameter and an unknown one.
UnknownKeyBatches(n) ==
    {[k \in DOMAIN b \cup {"random_seed"} |->
         IF k = "random_seed" THEN UnknownTensor(n) ELSE b[k]]
     : b \in OneParameterBatches(n) \cup {PlainBatch(n)}}

\* Batches of n requests supplying one sampling and one length parameter.
TwoParameterBatches(n) ==
    UNION {{[k \in {"prompts", get_default_sampling_params[i].name,
                    get_default_length_params[j].name} |->
                IF k = "prompts" THEN PromptsTensor(n)
                ELSE IF k = get_default_sampling_params[i].name THEN t ELSE u]
            : t \in ParameterTensors_n(get_default_sampling_params[i].value, n),
              u \in ParameterTensors_n(get_default_length_params[j].value, n)}
           : i \in DOMAIN get_default_sampling_params,
             j \in DOMAIN get_default_length_params}

ParameterBatches ==
    UNION {{PlainBatch(n)} \cup OneParameterBatches(n) \cup UnknownKeyBatches(n)
           \cup TwoParameterBatches(n) : n \in 1..MaxBatch}

BatchSize(batch) == Len(batch["prompts"])

\* Values of the generate result.
StrList(n) == PyList([i \in 1..n |-> PyStr("text")])
ListOfLists(scalar, lens) ==
    PyList([i \in DOMAIN lens |-> PyList([j \in 1..lens[i] |-> scalar])])
TensorList(dtype, lens) ==
    PyList([i \in DOMAIN lens |-> PyTensor(dtype, lens[i])])
Absent == [type |-> "absent"]

\* The row lengths of a list of up to MaxBatch entries.
RowLengths == UNION {[1..n -> 1..MaxTokens] : n \in 1..MaxBatch}

\* What generate returns for n prompts when log-probabilities are not asked
\* for: one entry per prompt in sentences, tokens, token_ids and offsets.
GenerateResult(n) ==
    [extra |-> Absent,
     sentences |-> StrList(n),
     tokens |-> ListOfLists(PyStr("tok"), [i \in 1..n |-> 1]),
     logprob |-> PyNone,
     full_logprob |-> PyNone,
     token_ids |-> ListOfLists(PyInt("7"), [i \in 1..n |-> 1]),
     offsets |-> ListOfLists(PyInt("0"), [i \in 1..n |-> 1])]

\* The values a field of a generate result is tried with.  sentences always
\* holds a list of strings when it is present.
FieldValues(field) ==
    {Absent} \cup
    CASE field = "sentences" -> {StrList(n) : n \in 1..MaxBatch}
      [] field = "tokens" ->
            {PyNone} \cup {ListOfLists(PyStr("tok"), l) : l \in RowLengths}
      [] field \in {"logprob", "full_logprob"} ->
            {PyNone}
            \cup {TensorList("bfloat16", l) : l \in RowLengths}
            \cup {TensorList("float32", l) : l \in RowLengths}
            \cup {ListOfLists(PyFloat("0.5"), l) : l \in RowLengths}
      [] field \in {"token_ids", "offsets"} ->
            {PyNone}
            \cup {ListOfLists(PyInt("7"), l) : l \in RowLengths}
            \cup {TensorList("int64", l) : l \in RowLengths}
      [] OTHER -> {PyNone}

ResultKeys == <<"sentences", "tokens", "logprob", "full_logprob", "token_ids", "offsets", "extra">>

\* The ordered dict of a result: its fields in order, absent ones left out.
AsDict(result) ==
    LET present == SelectSeq(ResultKeys, LAMBDA k : result[k] # Absent)
    IN  [i \in DOMAIN present |-> Entry(present[i], result[present[i]])]

\* A field of the result together with a value it is tried with.
FieldChoices ==
    UNION {{<<f, v>> : v \in FieldValues(f)} : f \in {ResultKeys[i] : i \in DOMAIN ResultKeys}}

\* The choices that leave a field out of the result or set it to None.
BlankChoices == {c \in FieldChoices : c[2] \in {Absent, PyNone}}

\* Generate results for n prompts: GenerateResult(n) with one field replaced
\* by any value the field is tried with, and one field left out or None.
GenerateResults(n) ==
    {AsDict([GenerateResult(n) EXCEPT ![p[1]] = p[2], ![q[1]] = q[2]])
        : p \in FieldChoices, q \in BlankChoices}

\* Hypothetical default values a provider may hold, for schema derivation.
DefaultValues ==
    {PyStr("a"), PyBool("True"), PyFloat("1.0"), PyInt("0"), PyNone,
     PyList(<<>>), PyList(<<PyStr("a")>>), PyList(<<PyStr("a"), PyStr("b")>>),
     PyList(<<PyBool("True")>>), PyList(<<PyFloat("1.0")>>), PyList(<<PyInt("0")>>),
     PyList(<<PyNone>>), PyList(<<PyList(<<PyInt("0")>>)>>)}

\* Hypothetical provider dictionaries over the given names, in order.
Dictionaries(names) ==
    UNION {{[i \in 1..n |-> Entry(names[i], vs[i])] : vs \in [1..n -> DefaultValues]}
           : n \in 0..Len(names)}

----------------------------------------------------------------------------
(* Specifications. *)

NothingServed ==
    /\ inputs = NoObject
    /\ model_output = NoObject
    /\ generate_args = NoObject
    /\ infer_result = NotCalled
    /\ overrides_served = FALSE
    /\ triton_input = NotCalled

RealProviders ==
    /\ sampling_defaults = get_default_sampling_params
    /\ length_defaults = get_default_length_params

\* The state a successful MegatronGPTDeployable(path, devices, nodes) leaves.
Constructed(devices, nodes, config) ==
    /\ pc = "constructed"
    /\ path_exists = TRUE
    /\ num_devices = devices
    /\ num_nodes = nodes
    /\ checkpoint_config = config
    /\ trainer = NewTrainer(devices, nodes)
    /\ custom_config = OverriddenConfig(config, devices)
    /\ model = EvalMode(RestoredModel(OverriddenConfig(config, devices)))
    /\ calls = << Call("Trainer", NoObject, FALSE),
                  Call("restore_from(return_config)", NoObject, FALSE),
                  Call("restore_from(override_config)",
                       OverriddenConfig(config, devices), FALSE),
                  Call("eval", NoObject, FALSE) >>

ConstructedDefault ==
    Constructed(1, 1, [transformer_engine |-> FALSE, tensor_model_parallel_size |-> 1])

\* Construction from any checkpoint, then requests without and with one
\* optional parameter.
Init ==
    /\ use_pytriton \in BOOLEAN
    /\ pc = "init"
    /\ path_exists \in BOOLEAN
    /\ num_devices \in 1..MaxDevices
    /\ num_nodes \in 1..MaxNodes
    /\ checkpoint_config \in (IF path_exists THEN CheckpointConfigs ELSE {NoObject})
    /\ trainer = NoObject
    /\ custom_config = NoObject
    /\ model = NoObject
    /\ calls = <<>>
    /\ RealProviders
    /\ NothingServed

Serve ==
    \E batch \in UNION {{PlainBatch(n)} \cup OneParameterBatches(n) : n \in 1..MaxBatch} :
        Deliver(batch, AsDict(GenerateResult(BatchSize(batch))))

Next == Load \/ Serve \/ TritonInferFn

Spec == Init /\ [][Next]_vars

\* A constructed instance serving any sequence of batches with parameters.
InitParams ==
    /\ use_pytriton \in BOOLEAN
    /\ ConstructedDefault
    /\ RealProviders
    /\ NothingServed

ServeParams ==
    \E batch \in ParameterBatches :
        Deliver(batch, AsDict(GenerateResult(BatchSize(batch))))

NextParams == ServeParams \/ TritonInferFn

SpecParams == InitParams /\ [][NextParams]_vars

\* A constructed instance handling one batch, for any generate result.
InitMarshal ==
    /\ use_pytriton \in BOOLEAN
    /\ ConstructedDefault
    /\ RealProviders
    /\ \E n \in 1..MaxBatch :
          /\ inputs = PlainBatch(n)
          /\ model_output \in GenerateResults(n)
    /\ generate_args = NoObject
    /\ infer_result = NotCalled
    /\ overrides_served = FALSE
    /\ triton_input = NotCalled

NextMarshal == TritonInferFn

SpecMarshal == InitMarshal /\ [][NextMarshal]_vars

\* A constructed instance whose providers hold any dictionaries, asked for
\* its input schema.
InitSchema ==
    /\ use_pytriton \in BOOLEAN
    /\ ConstructedDefault
    /\ sampling_defaults \in Dictionaries(<<"temperature", "end_strings">>)
    /\ length_defaults \in Dictionaries(<<"max_length">>)
    /\ NothingServed

NextSchema == GetTritonInput

SpecSchema == InitSchema /\ [][NextSchema]_vars

----------------------------------------------------------------------------
(* Properties. *)

SchemaFields == {"sentences", "tokens", "logprob", "full_logprob", "token_ids", "offsets"}

\* The element type get_triton_output declares for a field.
DeclaredDtype(field) ==
    LET outputs == get_triton_output(TRUE).value
    IN  outputs[CHOOSE i \in DOMAIN outputs : outputs[i].name = field].dtype

\* The call reached model.generate.
GenerateInvoked == generate_args # NoObject

\* C1: every mapping triton_infer_fn returns has exactly the six keys of the
\* output schema, whatever fields the generate result holds.
C1_AllSchemaKeysReturned ==
    IsOk(infer_result) => Keys(infer_result.value) = SchemaFields

\* C2: every array triton_infer_fn returns has the element type that
\* get_triton_output declares for its field: byte string for sentences and
\* tokens, single for logprob and full_logprob, native int for token_ids and
\* offsets.
C2_ReturnedTypesAsDeclared ==
    /\ \A f \in SchemaFields :
          DeclaredDtype(f) = [sentences |-> "bytes", tokens |-> "bytes",
                              logprob |-> "single", full_logprob |-> "single",
                              token_ids |-> "int_", offsets |-> "int_"][f]
    /\ IsOk(infer_result) =>
          \A i \in DOMAIN infer_result.value :
              infer_result.value[i].value.dtype = DeclaredDtype(infer_result.value[i].name)

\* The value of a key in the arguments generate received.
SamplingArg(k) == Lookup(generate_args.sampling_params, k)
LengthArg(k) == Lookup(generate_args.length_params, k)

\* The elements of a request tensor.
Elements(tensor) == {tensor[i][j] : i \in DOMAIN tensor, j \in {1}}

\* C3: each extracted dictionary has exactly the keys of its default
\* dictionary; a key holds a value of the batch exactly when the batch has
\* that key and its default otherwise; keys of the batch that no default
\* dictionary has are ignored without error; a batch without optional
\* parameters yields both default dictionaries.  The extractors run in every
\* call whose body runs, that is under pytriton's batch.
C3_OnlyPresentKeysOverridden ==
    (use_pytriton /\ infer_result # NotCalled) =>
        /\ IsOk(infer_result)
        /\ GenerateInvoked
        /\ Keys(generate_args.sampling_params) = Keys(get_default_sampling_params)
        /\ Keys(generate_args.length_params) = Keys(get_default_length_params)
        /\ Len(generate_args.sampling_params) = Len(get_default_sampling_params)
        /\ Len(generate_args.length_params) = Len(get_default_length_params)
        /\ \A k \in Keys(get_default_sampling_params) :
              IF k \in DOMAIN inputs
              THEN SamplingArg(k) \in Elements(inputs[k])
              ELSE SamplingArg(k) = Lookup(get_default_sampling_params, k)
        /\ \A k \in Keys(get_default_length_params) :
              IF k \in DOMAIN inputs
              THEN LengthArg(k) \in Elements(inputs[k])
              ELSE LengthArg(k) = Lookup(get_default_length_params, k)
        /\ DOMAIN inputs = {"prompts"} =>
              /\ generate_args.sampling_params = get_default_sampling_params
              /\ generate_args.length_params = get_default_length_params

\* C3 witness: a finished call whose batch has a sampling key, a length key
\* or an unknown key beside a known one.
C3_Witness ==
    /\ IsOk(infer_result)
    /\ "random_seed" \in DOMAIN inputs
    /\ "top_k" \in DOMAIN inputs
    /\ SamplingArg("top_k") = NpScalar("int_", "5")
    /\ SamplingArg("temperature") = PyFloat("1.0")

\* C4: a supplied parameter takes the element at row 0, column 0 of its
\* tensor, whatever the other rows hold, and generate receives that value;
\* temperature [[0.7]] gives temperature 0.7 and every other key its default.
C4_FirstRowFirstElement ==
    GenerateInvoked =>
        /\ \A k \in Keys(get_default_sampling_params) \cap DOMAIN inputs :
              SamplingArg(k) = inputs[k][1][1]
        /\ \A k \in Keys(get_default_length_params) \cap DOMAIN inputs :
              LengthArg(k) = inputs[k][1][1]
        /\ generate_args.inputs = [i \in 1..BatchSize(inputs) |-> PyStr("Hello")]
        /\ inputs = [prompts |-> PromptsTensor(1),
                     temperature |-> << <<NpScalar("single", "0.7")>> >>] =>
              /\ generate_args.sampling_params =
                    [i \in DOMAIN get_default_sampling_params |->
                        IF get_default_sampling_params[i].name = "temperature"
                        THEN Entry("temperature", NpScalar("single", "0.7"))
                        ELSE get_default_sampling_params[i]]
              /\ generate_args.length_params = get_default_length_params

\* C4 witness: generate was invoked for a batch of two rows whose temperature
\* rows differ, with the first row's value.
C4_Witness ==
    /\ GenerateInvoked
    /\ BatchSize(inputs) = 2
    /\ "temperature" \in DOMAIN inputs
    /\ inputs["temperature"][1][1] = NpScalar("single", "0.7")
    /\ inputs["temperature"][2][1] = NpScalar("single", "1.0")
    /\ SamplingArg("temperature") = NpScalar("single", "0.7")

\* The placeholder value of each output field.
FieldDefault ==
    [sentences |-> PyStr(""), tokens |-> PyStr(""),
     logprob |-> PyFloat("0.0"), full_logprob |-> PyFloat("0.0"),
     token_ids |-> PyInt("0"), offsets |-> PyInt("0")]

\* The shape of the sentences field of the generate result.
SentencesShape == <<Len(Lookup(model_output, "sentences").items)>>

\* C5: in a call that returns, a field the generate result holds None for
\* is returned as an array with the shape of the result's sentences (which
\* the result then holds) whose every element is the field's default value.
C5_NoneFieldsFilledWithDefault ==
    IsOk(infer_result) =>
        \A i \in DOMAIN model_output :
            model_output[i].value = PyNone =>
                /\ infer_result.value[i].name = model_output[i].name
                /\ "sentences" \in Keys(model_output)
                /\ infer_result.value[i].value.shape = SentencesShape
                /\ infer_result.value[i].value.fill = FieldDefault[model_output[i].name]

\* C5 witness: a returned call for two prompts whose result holds None for
\* full_logprob and tokens and two sentences.
C5_Witness ==
    /\ IsOk(infer_result)
    /\ BatchSize(inputs) = 2
    /\ {"sentences", "full_logprob", "tokens"} \subseteq Keys(model_output)
    /\ SentencesShape = <<2>>
    /\ Lookup(model_output, "full_logprob") = PyNone
    /\ Lookup(model_output, "tokens") = PyNone
    /\ Lookup(infer_result.value, "full_logprob") = NdArray("single", <<2>>, PyFloat("0.0"))
    /\ Lookup(infer_result.value, "tokens") = NdArray("bytes", <<2>>, PyStr(""))

\* C6: all arrays of a returned mapping have the same leading length, the
\* number of prompts of the batch.
C6_LeadingLengthIsBatchSize ==
    IsOk(infer_result) =>
        \A i \in DOMAIN infer_result.value :
            /\ infer_result.value[i].value.shape # <<>>
            /\ infer_result.value[i].value.shape[1] = BatchSize(inputs)

----------------------------------------------------------------------------
(* Properties of schema derivation and construction. *)

ScalarTypes == {"str", "bool", "float", "int"}

\* A default value as C7 words it: a scalar or a non-empty list.
ScalarOrNonEmptyList(v) ==
    \/ v.type \in ScalarTypes
    \/ v.type = "list" /\ v.items # <<>>

\* A scalar, or a list whose first element is a scalar.
ScalarOrListOfScalar(v) ==
    \/ v.type \in ScalarTypes
    \/ v.type = "list" /\ v.items # <<>> /\ v.items[1].type \in ScalarTypes

\* The descriptor at position i of the input schema belongs to entry e.
DescribesParameter(descriptor, e) ==
    /\ descriptor.name = e.name
    /\ descriptor.optional = TRUE
    /\ descriptor.shape = IF e.value.type = "list" THEN <<-1>> ELSE <<1>>

\* The input schema is the prompts descriptor, then one descriptor per
\* sampling key, then one per length key.
SchemaAsDerived ==
    /\ IsOk(triton_input)
    /\ Len(triton_input.value) = 1 + Len(sampling_defaults) + Len(length_defaults)
    /\ triton_input.value[1] =
          [name |-> "prompts", shape |-> <<-1>>, dtype |-> "bytes", optional |-> FALSE]
    /\ \A i \in DOMAIN sampling_defaults :
          DescribesParameter(triton_input.value[1 + i], sampling_defaults[i])
    /\ \A i \in DOMAIN length_defaults :
          DescribesParameter(triton_input.value[1 + Len(sampling_defaults) + i],
                             length_defaults[i])

\* The values both providers hold.
AllDefaultValues ==
    {sampling_defaults[i].value : i \in DOMAIN sampling_defaults}
    \cup {length_defaults[i].value : i \in DOMAIN length_defaults}

\* C7 as stated: for default dictionaries whose values are scalars or
\* non-empty lists, get_triton_input does not raise and returns the prompts
\* descriptor, then one optional descriptor per sampling key, then one per
\* length key, of shape (1,) for a non-list default and (-1,) for a list.
C7_SchemaForNonEmptyLists ==
    (triton_input # NotCalled /\ \A v \in AllDefaultValues : ScalarOrNonEmptyList(v))
        => SchemaAsDerived

\* C7 amended: the same, when pytriton's Tensor was imported, for default
\* dictionaries whose values are scalars or non-empty lists whose first
\* element is a str, bool, float or int.
C7_SchemaForListsOfScalars ==
    (triton_input # NotCalled /\ use_pytriton /\ \A v \in AllDefaultValues : ScalarOrListOfScalar(v))
        => SchemaAsDerived

\* C7 witness: the schema was derived for a scalar and a list sampling
\* default and a scalar length default.
C7_Witness ==
    /\ sampling_defaults = << Entry("temperature", PyFloat("1.0")),
                              Entry("end_strings", PyList(<<PyStr("a"), PyStr("b")>>)) >>
    /\ length_defaults = << Entry("max_length", PyInt("0")) >>
    /\ IsOk(triton_input)
    /\ triton_input.value[2] = Tensor("temperature", <<1>>, "single", TRUE)
    /\ triton_input.value[3] = Tensor("end_strings", <<-1>>, "bytes", TRUE)
    /\ triton_input.value[4] = Tensor("max_length", <<1>>, "int_", TRUE)

\* C8: when the checkpoint path does not exist, construction completes
\* without error and without any external call, the instance has no model,
\* and every triton_infer_fn call on it raises at the first use of the model:
\* generate is not invoked and no mapping is returned.
C8_MissingCheckpointLeavesNoModel ==
    ~path_exists =>
        /\ pc \in {"init", "constructed"}
        /\ calls = <<>>
        /\ trainer = NoObject
        /\ model = NoObject
        /\ ~GenerateInvoked
        /\ infer_result \in {NotCalled, Raised("AttributeError")}

LoadOrder ==
    <<"Trainer", "restore_from(return_config)", "restore_from(override_config)", "eval">>

\* C10: _load reads the configuration, overrides it, restores the weights
\* with it and then sets evaluation mode, in that order; the configuration
\* the weights are restored with has transformer_engine true and the
\* tensor-parallel size equal to the device count; a step that fails is the
\* last step made, and leaves the constructor raised.
C10_LoadOrder ==
    /\ Len(calls) <= Len(LoadOrder)
    /\ \A i \in DOMAIN calls : calls[i].op = LoadOrder[i]
    /\ \A i \in DOMAIN calls :
          calls[i].op = "restore_from(override_config)" =>
              /\ calls[i].config # NoObject
              /\ calls[i].config.transformer_engine = TRUE
              /\ calls[i].config.tensor_model_parallel_size = num_devices
    /\ \A i \in DOMAIN calls : calls[i].failed => i = Len(calls) /\ pc = "raised"
    /\ pc = "raised" => calls # <<>> /\ calls[Len(calls)].failed
    /\ model # NoObject =>
          /\ Len(calls) >= 3
          /\ model.config = calls[3].config
          /\ model.training = (Len(calls) = 3 \/ calls[4].failed)
    /\ (path_exists /\ pc = "constructed") =>
          /\ Len(calls) = 4
          /\ model # NoObject

\* C10 witness: a two-device instance was constructed from a checkpoint
\* stored with parallel size one and without transformer_engine.
C10_Witness ==
    /\ pc = "constructed"
    /\ path_exists
    /\ num_devices = 2
    /\ checkpoint_config = [transformer_engine |-> FALSE, tensor_model_parallel_size |-> 1]
    /\ model = [type |-> "MegatronGPTModel",
                config |-> [transformer_engine |-> TRUE, tensor_model_parallel_size |-> 2],
                training |-> FALSE]

\* C9: the dictionaries the providers hand to the next call stay the
\* defaults, so a call that supplies no optional parameter invokes generate
\* with exactly the defaults, whatever earlier calls overrode.
C9_DefaultsSurviveOverrides ==
    /\ sampling_defaults = get_default_sampling_params
    /\ length_defaults = get_default_length_params
    /\ (GenerateInvoked /\ DOMAIN inputs = {"prompts"}) =>
          /\ generate_args.sampling_params = get_default_sampling_params
          /\ generate_args.length_params = get_default_length_params

\* C9 witness: after a call that overrode parameters, a call without optional
\* parameters has invoked generate.
C9_Witness ==
    /\ overrides_served
    /\ DOMAIN inputs = {"prompts"}
    /\ GenerateInvoked
    /\ IsOk(infer_result)

====
